---- MODULE Spec2Model ----
(***************************************************************************)
(* Model of the audio ingestion service (src/src/main.py): the validation  *)
(* chain, the per-file decode / duration / store loop of process_audio,    *)
(* and the audio_metadata table.  Strings that the code inspects           *)
(* character by character (timestamp, encoded_audio) are sequences of      *)
(* one-character strings; the base64 codec is modelled bit for bit after   *)
(* CPython's binascii (3.11+), which base64.b64decode / b64encode call.    *)
(***************************************************************************)
EXTENDS Integers, Sequences, FiniteSets, TLC

(***************************************************************************)
(* Bounds of the model.                                                    *)
(***************************************************************************)
MaxFiles == 2

(***************************************************************************)
(* base64: the alphabet, binascii.a2b_base64 and binascii.b2a_base64.      *)
(***************************************************************************)
B64Chars ==
  <<"A","B","C","D","E","F","G","H","I","J","K","L","M","N","O","P",
    "Q","R","S","T","U","V","W","X","Y","Z","a","b","c","d","e","f",
    "g","h","i","j","k","l","m","n","o","p","q","r","s","t","u","v",
    "w","x","y","z","0","1","2","3","4","5","6","7","8","9","+","/">>

BASE64_PAD == "="

\* A character outside ASCII is written as the token of its code point.
NonAscii == {"u00e9", "u0663"}

IsB64(c) == \E i \in 1..64 : B64Chars[i] = c

B64Val(c) == (CHOOSE i \in 1..64 : B64Chars[i] = c) - 1

DecodeErr == [ok |-> FALSE, data |-> <<>>]

DecodeOk(out) == [ok |-> TRUE, data |-> out]

\* The state of the decoding loop of binascii.a2b_base64: the position in
\* the current quad, the bits left over, the pads seen, and the output.
\* status is "run" inside the loop, "done" after the goto done, "error"
\* after a goto error_end.
A2bStart ==
  [status |-> "run", quad_pos |-> 0, leftchar |-> 0, pads |-> 0,
   padding_started |-> FALSE, out |-> <<>>]

\* One iteration of the loop, on character c; last says c ends the input.
a2b_step(st, c, last, strict_mode) ==
  IF c = BASE64_PAD
  THEN IF st.quad_pos >= 2 /\ st.quad_pos + st.pads + 1 >= 4
       THEN IF strict_mode /\ ~last
            THEN [st EXCEPT !.status = "error"]
            ELSE [st EXCEPT !.status = "done"]
       ELSE [st EXCEPT !.padding_started = TRUE,
                       !.pads = IF st.quad_pos >= 2 THEN @ + 1 ELSE @]
  ELSE IF ~IsB64(c)
  THEN IF strict_mode THEN [st EXCEPT !.status = "error"] ELSE st
  ELSE IF strict_mode /\ st.padding_started
  THEN [st EXCEPT !.status = "error"]
  ELSE LET v == B64Val(c) IN
    CASE st.quad_pos = 0 ->
           [st EXCEPT !.quad_pos = 1, !.leftchar = v, !.pads = 0]
      [] st.quad_pos = 1 ->
           [st EXCEPT !.quad_pos = 2, !.leftchar = v % 16, !.pads = 0,
                      !.out = Append(@, (st.leftchar * 4 + v \div 16) % 256)]
      [] st.quad_pos = 2 ->
           [st EXCEPT !.quad_pos = 3, !.leftchar = v % 4, !.pads = 0,
                      !.out = Append(@, (st.leftchar * 16 + v \div 4) % 256)]
      [] OTHER ->
           [st EXCEPT !.quad_pos = 0, !.leftchar = 0, !.pads = 0,
                      !.out = Append(@, (st.leftchar * 64 + v) % 256)]

RECURSIVE a2b_loop(_, _, _, _)
a2b_loop(s, i, strict_mode, st) ==
  IF i > Len(s) \/ st.status # "run" THEN st
  ELSE a2b_loop(s, i + 1, strict_mode,
                a2b_step(st, s[i], i = Len(s), strict_mode))

\* Leading padding is refused in strict mode; after the loop an unfinished
\* quad is an error (incorrect padding).
a2b_base64(s, strict_mode) ==
  IF strict_mode /\ Len(s) > 0 /\ s[1] = BASE64_PAD
  THEN DecodeErr
  ELSE LET st == a2b_loop(s, 1, strict_mode, A2bStart) IN
    IF st.status = "error" THEN DecodeErr
    ELSE IF st.status = "run" /\ st.quad_pos # 0 THEN DecodeErr
    ELSE DecodeOk(st.out)

\* base64.b64decode(s, validate=...): a str with a non-ASCII character is
\* refused before decoding; otherwise binascii.a2b_base64(s, strict_mode).
b64decode(s, validate) ==
  IF \E i \in 1..Len(s) : s[i] \in NonAscii
  THEN DecodeErr
  ELSE a2b_base64(s, validate)

RECURSIVE b64encode(_)
b64encode(data) ==
  IF Len(data) = 0 THEN <<>>
  ELSE IF Len(data) = 1 THEN
    <<B64Chars[data[1] \div 4 + 1], B64Chars[(data[1] % 4) * 16 + 1],
      BASE64_PAD, BASE64_PAD>>
  ELSE IF Len(data) = 2 THEN
    <<B64Chars[data[1] \div 4 + 1],
      B64Chars[(data[1] % 4) * 16 + data[2] \div 16 + 1],
      B64Chars[(data[2] % 16) * 4 + 1], BASE64_PAD>>
  ELSE
    <<B64Chars[data[1] \div 4 + 1],
      B64Chars[(data[1] % 4) * 16 + data[2] \div 16 + 1],
      B64Chars[(data[2] % 16) * 4 + data[3] \div 64 + 1],
      B64Chars[(data[3] % 64) + 1]>>
    \o b64encode(SubSeq(data, 4, Len(data)))

(***************************************************************************)
(* np.frombuffer(data, dtype=np.int16): the bytes reinterpreted as         *)
(* little-endian signed 16-bit samples; a buffer whose size is not a       *)
(* multiple of the element size raises ValueError.                         *)
(***************************************************************************)
Int16(lo, hi) ==
  LET u == lo + 256 * hi IN IF u >= 32768 THEN u - 65536 ELSE u

\* Variant: a trailing odd byte is dropped instead of refused.
frombuffer_Truncating(data) ==
  [ok |-> TRUE,
   array |-> [k \in 1..(Len(data) \div 2) |->
                Int16(data[2 * k - 1], data[2 * k])]]

frombuffer(data) ==
  IF Len(data) % 2 # 0
  THEN [ok |-> FALSE, array |-> <<>>]
  ELSE [ok |-> TRUE,
        array |-> [k \in 1..(Len(data) \div 2) |->
                     Int16(data[2 * k - 1], data[2 * k])]]

\* sample_rate = 4000 in process_audio.
sample_rate == 4000

\* len(audio_array) / sample_rate: a real number, kept as a fraction.
calculate_audio_length(audio_array, rate) ==
  [num |-> Len(audio_array), den |-> rate]

(***************************************************************************)
(* round(length_seconds, 2).  Python rounds the double nearest to          *)
(* num / den, correctly, to two decimals: the result is the nearest        *)
(* hundredth of the exact quotient, except that when the quotient lies     *)
(* exactly halfway between two hundredths the representation error of the  *)
(* double decides (and round-half-even when the double is exact).          *)
(* FloatErrSign is the sign of double(num / den) - num / den, found by     *)
(* binary long division to the 53 bits of a double's significand.          *)
(***************************************************************************)
RECURSIVE BitLen(_)
BitLen(n) == IF n = 0 THEN 0 ELSE 1 + BitLen(n \div 2)

RECURSIVE FracBits(_, _, _, _)
FracBits(r, q, kept, lastbit) ==
  IF r = 0 THEN 0
  ELSE IF kept = 53
  THEN IF 2 * r < q THEN -1
       ELSE IF 2 * r > q THEN 1
       ELSE IF lastbit = 0 THEN -1 ELSE 1
  ELSE LET bit == IF 2 * r >= q THEN 1 ELSE 0 IN
       FracBits(2 * r - bit * q, q,
                IF kept > 0 \/ bit = 1 THEN kept + 1 ELSE kept, bit)

FloatErrSign(num, den) ==
  FracBits(num % den, den, BitLen(num \div den), (num \div den) % 2)

\* Variant: the digits after the second decimal are cut off, not rounded.
Round2_Truncate(x) == (x.num * 100) \div x.den

\* The result in hundredths: round(x, 2) = Round2(x) / 100.
Round2(x) ==
  LET h == (x.num * 100) \div x.den
      rem == (x.num * 100) % x.den
      e == FloatErrSign(x.num, x.den)
  IN IF 2 * rem < x.den THEN h
     ELSE IF 2 * rem > x.den THEN h + 1
     ELSE IF e > 0 THEN h + 1
     ELSE IF e < 0 THEN h
     ELSE IF h % 2 = 0 THEN h ELSE h + 1

(***************************************************************************)
(* The validation chain.  A call either returns a value or raises an       *)
(* ExceptionCustom (an HTTPException) with a status code and a detail.     *)
(***************************************************************************)
Return(v) == [raised |-> FALSE, value |-> v, status_code |-> 0, detail |-> ""]

ExceptionCustom(code, msg) ==
  [raised |-> TRUE, value |-> FALSE, status_code |-> code, detail |-> msg]

validate_audio_files_present(audio_files) ==
  IF Len(audio_files) = 0
  THEN ExceptionCustom(400, "No audio files provided!")
  ELSE Return(TRUE)

\* \d of a str pattern matches every Unicode decimal digit.
Digits == {"0","1","2","3","4","5","6","7","8","9","u0663"}

AllDigits(t, from, to) == \A i \in from..to : t[i] \in Digits

\* re.fullmatch(r"^\d{4}-\d{2}-\d{2}T\d{2}:\d{2}:\d{2}(?:\.\d+)?Z$", t)
MatchesTimestampPattern(t) ==
  /\ Len(t) >= 20
  /\ AllDigits(t, 1, 4) /\ t[5] = "-"
  /\ AllDigits(t, 6, 7) /\ t[8] = "-"
  /\ AllDigits(t, 9, 10) /\ t[11] = "T"
  /\ AllDigits(t, 12, 13) /\ t[14] = ":"
  /\ AllDigits(t, 15, 16) /\ t[17] = ":"
  /\ AllDigits(t, 18, 19)
  /\ \/ Len(t) = 20 /\ t[20] = "Z"
     \/ /\ Len(t) >= 22
        /\ t[20] = "."
        /\ AllDigits(t, 21, Len(t) - 1)
        /\ t[Len(t)] = "Z"

\* Variant: the pattern is matched as a prefix (re.match, no "Z$").
validate_timestamp_PrefixOnly(timestamp) ==
  IF ~(/\ Len(timestamp) >= 19
       /\ MatchesTimestampPattern(SubSeq(timestamp, 1, 19) \o <<"Z">>))
  THEN ExceptionCustom(400, "Invalid timestamp format!")
  ELSE Return(TRUE)

validate_timestamp(timestamp) ==
  IF ~MatchesTimestampPattern(timestamp)
  THEN ExceptionCustom(400, "Invalid timestamp format!")
  ELSE Return(TRUE)

\* Variant: a file that fails to decode is passed over like a file that
\* re-encodes differently, instead of raising.
RECURSIVE validate_audio_file_from_Lenient(_, _)
validate_audio_file_from_Lenient(audio_files, i) ==
  IF i > Len(audio_files) THEN Return(FALSE)
  ELSE LET decoded == b64decode(audio_files[i].encoded_audio, TRUE) IN
    IF decoded.ok /\ b64encode(decoded.data) = audio_files[i].encoded_audio
    THEN Return(TRUE)
    ELSE validate_audio_file_from_Lenient(audio_files, i + 1)

\* The loop over audio_files: the first file that decodes strictly and
\* re-encodes to itself returns True; a file that fails to decode raises; a
\* file that decodes but re-encodes differently is passed over; the end of
\* the list returns None.
RECURSIVE validate_audio_file_from(_, _)
validate_audio_file_from(audio_files, i) ==
  IF i > Len(audio_files) THEN Return(FALSE)
  ELSE LET decoded == b64decode(audio_files[i].encoded_audio, TRUE) IN
    IF ~decoded.ok
    THEN ExceptionCustom(400, "Invalid base64 encoding file!")
    ELSE IF b64encode(decoded.data) = audio_files[i].encoded_audio
    THEN Return(TRUE)
    ELSE validate_audio_file_from(audio_files, i + 1)

validate_audio_file(audio_files) == validate_audio_file_from(audio_files, 1)

\* Variant: the timestamp is checked before the presence of files.
validate_payload_TimestampFirst(p) ==
  LET ts == validate_timestamp(p.timestamp) IN
  IF ts.raised THEN ts
  ELSE LET present == validate_audio_files_present(p.audio_files) IN
    IF present.raised THEN present
    ELSE LET files == validate_audio_file(p.audio_files) IN
      IF files.raised THEN files
      ELSE Return(files.value)

\* a and b and c: the first call that raises or returns a false value ends
\* the chain.
validate_payload(p) ==
  LET present == validate_audio_files_present(p.audio_files) IN
  IF present.raised THEN present
  ELSE IF ~present.value THEN Return(FALSE)
  ELSE LET ts == validate_timestamp(p.timestamp) IN
    IF ts.raised THEN ts
    ELSE IF ~ts.value THEN Return(FALSE)
    ELSE LET files == validate_audio_file(p.audio_files) IN
      IF files.raised THEN files
      ELSE Return(files.value)

\* The per-file decoding of the processing loop: the lenient b64decode, then
\* np.frombuffer and calculate_audio_length.
DecodeFile(audio_file) ==
  LET raw == b64decode(audio_file.encoded_audio, FALSE) IN
  IF ~raw.ok THEN [ok |-> FALSE, length_seconds |-> [num |-> 0, den |-> 1]]
  ELSE LET audio_array == frombuffer(raw.data) IN
    IF ~audio_array.ok
    THEN [ok |-> FALSE, length_seconds |-> [num |-> 0, den |-> 1]]
    ELSE [ok |-> TRUE,
          length_seconds |->
            calculate_audio_length(audio_array.array, sample_rate)]

(***************************************************************************)
(* The requests clients submit: AudioPayload(session_id, timestamp,        *)
(* audio_files), with audio_files a list of AudioFile(file_name,           *)
(* encoded_audio).                                                         *)
(***************************************************************************)
Zeros(n) == [i \in 1..n |-> 0]

TsValid ==
  <<"2","0","2","5","-","0","1","-","0","2","T","1","2",":","0","0",":",
    "0","0","Z">>

TsNoZ == SubSeq(TsValid, 1, 19)

TsFraction == TsNoZ \o <<".","1","2","3","Z">>

TsEmptyFraction == TsNoZ \o <<".","Z">>

TsOffset == TsNoZ \o <<"+","0","1",":","0","0">>

Timestamps == {TsValid, TsNoZ, TsEmptyFraction, TsOffset}

SessionIds == {"test-session"}

EncEmpty == <<>>
EncOdd == b64encode(<<1, 2, 3>>)
EncLong == b64encode(Zeros(60))
EncTie == b64encode(Zeros(40))
EncNonCanonical == <<"A","Q","B","=">>
EncGarbageDecodable == <<"!","A","Q","A","=">>
EncGarbage == <<"[","1"," ","2","]">>

FileEmpty == [file_name |-> "a.wav", encoded_audio |-> EncEmpty]
FileOdd == [file_name |-> "b.wav", encoded_audio |-> EncOdd]
FileLong == [file_name |-> "b.wav", encoded_audio |-> EncLong]
FileNonCanonical == [file_name |-> "a.wav", encoded_audio |-> EncNonCanonical]
FileGarbageDecodable ==
  [file_name |-> "b.wav", encoded_audio |-> EncGarbageDecodable]
FileGarbage == [file_name |-> "a.wav", encoded_audio |-> EncGarbage]
FileTie == [file_name |-> "a.wav", encoded_audio |-> EncTie]

AudioFiles ==
  {FileEmpty, FileOdd, FileLong, FileTie, FileNonCanonical,
   FileGarbageDecodable, FileGarbage}

FileLists == UNION {[1..n -> AudioFiles] : n \in 0..MaxFiles}

Payloads ==
  [session_id : SessionIds, timestamp : Timestamps, audio_files : FileLists]

\* The batches of the second, concurrent request.
ConcurrentPayloads ==
  { [session_id |-> "test-session", timestamp |-> TsValid,
     audio_files |-> <<FileTie, FileLong>>],
    [session_id |-> "other-session", timestamp |-> TsFraction,
     audio_files |-> <<FileEmpty, FileGarbage>>],
    [session_id |-> "other-session", timestamp |-> TsNoZ,
     audio_files |-> <<FileTie>>] }

\* process_audio calls validate_payload once per request and decodes each
\* file once; both are pure, and are tabulated over the requests above.
ValidationOf ==
  [p \in Payloads \cup ConcurrentPayloads |-> validate_payload(p)]

DecodedOf == [f \in AudioFiles |-> DecodeFile(f)]

(***************************************************************************)
(* State.  db is the audio_metadata table in insertion order.  Each worker *)
(* runs process_audio for one request at a time: pc is its position,       *)
(* payload the request, idx the position of the for loop, processed_files  *)
(* the list being built, response the HTTP response, log the error lines   *)
(* written for the request, and inserted the rows its INSERTs created      *)
(* (file index, row id).  Worker w1 takes any request, worker w2 one of     *)
(* ConcurrentPayloads; their steps interleave freely.                      *)
(***************************************************************************)
VARIABLES db, pc, payload, idx, processed_files, response, log, inserted

vars == <<db, pc, payload, idx, processed_files, response, log, inserted>>

Requests(w) == IF w = "w1" THEN Payloads ELSE ConcurrentPayloads

Workers == {"w1", "w2"}

NoPayload == [session_id |-> "", timestamp |-> <<>>, audio_files |-> <<>>]

NoResponse == [status_code |-> 0, content |-> [status |-> "none"]]

\* init_db(): CREATE TABLE IF NOT EXISTS audio_metadata.
init_db == <<>>

Init ==
  /\ db = init_db
  /\ pc = [w \in Workers |-> "idle"]
  /\ payload = [w \in Workers |-> NoPayload]
  /\ idx = [w \in Workers |-> 0]
  /\ processed_files = [w \in Workers |-> <<>>]
  /\ response = [w \in Workers |-> NoResponse]
  /\ log = [w \in Workers |-> {}]
  /\ inserted = [w \in Workers |-> {}]

\* Variant: the parameters of the INSERT bound in the wrong order.
NewRow_Swapped(table, session_id, timestamp, file_name, length_seconds) ==
  [id |-> Len(table) + 1, session_id |-> file_name, timestamp |-> timestamp,
   file_name |-> session_id, length_seconds |-> length_seconds]

\* The row INSERT INTO audio_metadata adds; id is AUTOINCREMENT.
NewRow(table, session_id, timestamp, file_name, length_seconds) ==
  [id |-> Len(table) + 1, session_id |-> session_id, timestamp |-> timestamp,
   file_name |-> file_name, length_seconds |-> length_seconds]

\* A request arrives at an idle worker: validate_payload raises, and the
\* HTTPException becomes the response (status code and detail).
ValidationRaises(w) ==
  /\ pc[w] = "idle"
  /\ \E p \in Requests(w) :
     /\ ValidationOf[p].raised
     /\ payload' = [payload EXCEPT ![w] = p]
     /\ response' = [response EXCEPT ![w] =
           [status_code |-> ValidationOf[p].status_code,
            content |-> [detail |-> ValidationOf[p].detail]]]
     /\ pc' = [pc EXCEPT ![w] = "responded"]
     /\ UNCHANGED <<db, idx, processed_files, log, inserted>>

\* validate_payload returns False: process_audio returns the error body.
ValidationReturnsFalse(w) ==
  /\ pc[w] = "idle"
  /\ \E p \in Requests(w) :
     /\ ~ValidationOf[p].raised /\ ~ValidationOf[p].value
     /\ payload' = [payload EXCEPT ![w] = p]
     /\ response' = [response EXCEPT ![w] =
           [status_code |-> 200,
            content |-> [status |-> "error",
                         message |-> "Invalid audio file metadata or payload."]]]
     /\ pc' = [pc EXCEPT ![w] = "responded"]
     /\ UNCHANGED <<db, idx, processed_files, log, inserted>>

\* validate_payload returns True: the for loop starts at the first file.
ValidationPasses(w) ==
  /\ pc[w] = "idle"
  /\ \E p \in Requests(w) :
     /\ ~ValidationOf[p].raised /\ ValidationOf[p].value
     /\ payload' = [payload EXCEPT ![w] = p]
     /\ idx' = [idx EXCEPT ![w] = 1]
     /\ pc' = [pc EXCEPT ![w] = "processing"]
     /\ UNCHANGED <<db, processed_files, response, log, inserted>>

InLoop(w) == pc[w] = "processing" /\ idx[w] <= Len(payload[w].audio_files)

CurrentFile(w) == payload[w].audio_files[idx[w]]

\* Variant: the failure ends the loop (break) instead of the iteration.
DecodeFails_Break(w) ==
  /\ pc[w] = "processing" /\ idx[w] <= Len(payload[w].audio_files)
  /\ ~DecodedOf[payload[w].audio_files[idx[w]]].ok
  /\ log' = [log EXCEPT ![w] =
        @ \cup {<<idx[w], "Unexpected error processing file">>}]
  /\ idx' = [idx EXCEPT ![w] = Len(payload[w].audio_files) + 1]
  /\ UNCHANGED <<db, pc, payload, processed_files, response, inserted>>

\* One iteration in which b64decode or np.frombuffer raises: except
\* Exception, log, continue.
DecodeFails(w) ==
  /\ InLoop(w)
  /\ ~DecodedOf[CurrentFile(w)].ok
  /\ log' = [log EXCEPT ![w] =
        @ \cup {<<idx[w], "Unexpected error processing file">>}]
  /\ idx' = [idx EXCEPT ![w] = @ + 1]
  /\ UNCHANGED <<db, pc, payload, processed_files, response, inserted>>

\* One iteration that decodes and stores: the row is committed and the file
\* is appended to processed_files with its length rounded to 2 decimals.
StoreSucceeds(w) ==
  /\ InLoop(w)
  /\ DecodedOf[CurrentFile(w)].ok
  /\ LET length_seconds == DecodedOf[CurrentFile(w)].length_seconds IN
       /\ db' = Append(db, NewRow(db, payload[w].session_id,
                                  payload[w].timestamp,
                                  CurrentFile(w).file_name, length_seconds))
       /\ processed_files' = [processed_files EXCEPT ![w] =
             Append(@, [file_name |-> CurrentFile(w).file_name,
                        length_seconds |-> Round2(length_seconds)])]
  /\ inserted' = [inserted EXCEPT ![w] = @ \cup {<<idx[w], Len(db) + 1>>}]
  /\ idx' = [idx EXCEPT ![w] = @ + 1]
  /\ UNCHANGED <<pc, payload, response, log>>

\* Variant: one transaction spans the batch, and a failed INSERT rolls back
\* the rows the request has stored so far.
StoreFails_Rollback(w) ==
  /\ pc[w] = "processing" /\ idx[w] <= Len(payload[w].audio_files)
  /\ DecodedOf[payload[w].audio_files[idx[w]]].ok
  /\ db' = SelectSeq(db, LAMBDA r : \A i \in 1..Len(payload[w].audio_files) :
                                      <<i, r.id>> \notin inserted[w])
  /\ log' = [log EXCEPT ![w] = @ \cup {<<idx[w], "Failed to process file">>}]
  /\ idx' = [idx EXCEPT ![w] = @ + 1]
  /\ UNCHANGED <<pc, payload, processed_files, response, inserted>>

\* One iteration in which the INSERT or the commit raises: the transaction
\* is rolled back, store_audio_metadata raises HTTPException(500), except
\* HTTPException, log, continue.
StoreFails(w) ==
  /\ InLoop(w)
  /\ DecodedOf[CurrentFile(w)].ok
  /\ log' = [log EXCEPT ![w] = @ \cup {<<idx[w], "Failed to process file">>}]
  /\ idx' = [idx EXCEPT ![w] = @ + 1]
  /\ UNCHANGED <<db, pc, payload, processed_files, response, inserted>>

\* The loop is over: return the success body.
ReturnSuccess(w) ==
  /\ pc[w] = "processing" /\ idx[w] > Len(payload[w].audio_files)
  /\ response' = [response EXCEPT ![w] =
        [status_code |-> 200,
         content |-> [status |-> "success",
                      processed_files |-> processed_files[w]]]]
  /\ pc' = [pc EXCEPT ![w] = "responded"]
  /\ UNCHANGED <<db, payload, idx, processed_files, log, inserted>>

Next ==
  \E w \in Workers :
    \/ ValidationRaises(w)
    \/ ValidationReturnsFalse(w)
    \/ ValidationPasses(w)
    \/ DecodeFails(w)
    \/ StoreSucceeds(w)
    \/ StoreFails(w)
    \/ ReturnSuccess(w)

Spec == Init /\ [][Next]_vars

(***************************************************************************)
(* Vocabulary of the properties.  The base64 notions are those of the      *)
(* codec, not of the validator: a string is strictly decodable when the    *)
(* strict decoder accepts it, canonical when it is moreover the encoding   *)
(* of the bytes it decodes to; the decoded payload of a file is what the   *)
(* lenient decoder returns.                                                *)
(***************************************************************************)
StrictDecodable == {f \in AudioFiles : b64decode(f.encoded_audio, TRUE).ok}

Canonical ==
  {f \in StrictDecodable :
     b64encode(b64decode(f.encoded_audio, TRUE).data) = f.encoded_audio}

PayloadOf == [f \in AudioFiles |-> b64decode(f.encoded_audio, FALSE)]

WholeSamples(f) == PayloadOf[f].ok /\ Len(PayloadOf[f].data) % 2 = 0

OddPayload(f) == PayloadOf[f].ok /\ Len(PayloadOf[f].data) % 2 = 1

SampleCount(f) == Len(PayloadOf[f].data) \div 2

Files(w) == payload[w].audio_files

Active(w) == pc[w] # "idle"

Responded(w) == pc[w] = "responded"

Http400(w, msg) ==
  response[w] = [status_code |-> 400, content |-> [detail |-> msg]]

Success(w) ==
  /\ response[w].status_code = 200
  /\ DOMAIN response[w].content = {"status", "processed_files"}
  /\ response[w].content.status = "success"
  /\ response[w].content.processed_files = processed_files[w]

\* The base64 check as the validator is specified: the files are scanned in
\* order until one is canonical; an undecodable file met before that fails
\* the check, and so does reaching the end of the list.
Base64CheckPasses(audio_files) ==
  \E i \in 1..Len(audio_files) :
    /\ audio_files[i] \in Canonical
    /\ \A j \in 1..(i - 1) : audio_files[j] \in StrictDecodable

FailsValidation(p) ==
  \/ Len(p.audio_files) = 0
  \/ ~MatchesTimestampPattern(p.timestamp)
  \/ ~Base64CheckPasses(p.audio_files)

Validated(w) == Active(w) /\ ~FailsValidation(payload[w])

\* The files the loop has gone through.
Handled(w) == IF Responded(w) THEN Len(Files(w)) ELSE idx[w] - 1

Skipped(w, i) == \E m \in {"Unexpected error processing file",
                            "Failed to process file"} : <<i, m>> \in log[w]

StoreFailed(w, i) == <<i, "Failed to process file">> \in log[w]

RowsOf(w, i) == {k \in 1..Len(db) : <<i, k>> \in inserted[w]}

\* The indices, in input order, of the first n files that were not skipped.
RECURSIVE KeptIdx(_, _)
KeptIdx(w, n) ==
  IF n = 0 THEN <<>>
  ELSE IF Skipped(w, n) THEN KeptIdx(w, n - 1)
  ELSE Append(KeptIdx(w, n - 1), n)

Listed(w, i) ==
  \E j \in 1..Len(processed_files[w]) :
    /\ j <= Len(KeptIdx(w, Handled(w)))
    /\ KeptIdx(w, Handled(w))[j] = i
    /\ processed_files[w][j].file_name = Files(w)[i].file_name

NoSideEffects(w) ==
  /\ idx[w] = 0
  /\ processed_files[w] = <<>>
  /\ log[w] = {}
  /\ inserted[w] = {}
  /\ \A k \in 1..Len(db) :
       \E v \in Workers \ {w} : \E i \in 1..Len(Files(v)) : <<i, k>> \in inserted[v]

(***************************************************************************)
(* C1  Fail-fast: a batch that fails validation (no files, a timestamp     *)
(* outside the grammar, or the base64 check not passed) is answered at     *)
(* once with a failure, and process_audio has decoded nothing and stored   *)
(* nothing for it: every row of the table was inserted by another request. *)
(***************************************************************************)
C1_FailFast ==
  \A w \in Workers :
    Active(w) /\ FailsValidation(payload[w]) =>
      Responded(w) /\ ~Success(w) /\ NoSideEffects(w)

\* A rejected batch of two files, the offending one first and a valid one
\* after it, while the table holds rows of the other request.
C1_Witness ==
  \E w \in Workers :
    /\ Responded(w) /\ FailsValidation(payload[w])
    /\ MatchesTimestampPattern(payload[w].timestamp)
    /\ Len(Files(w)) = 2
    /\ Files(w)[1] \notin StrictDecodable
    /\ Files(w)[2] \in Canonical
    /\ Len(db) > 0

(***************************************************************************)
(* C2  Fail-soft: in a validated batch a decode failure or a storage       *)
(* failure skips that file only.  Every file that was not skipped has its  *)
(* row and its entry, in input order; a skipped file has neither; and the  *)
(* response is HTTP 200 "success" with the list built, also when it is     *)
(* empty: the 500 of store_audio_metadata never reaches the caller.        *)
(***************************************************************************)
C2_FailSoft ==
  \A w \in Workers :
    Validated(w) =>
      /\ Len(processed_files[w]) = Len(KeptIdx(w, Handled(w)))
      /\ \A i \in 1..Handled(w) :
           IF Skipped(w, i)
           THEN RowsOf(w, i) = {} /\ ~Listed(w, i)
           ELSE Cardinality(RowsOf(w, i)) = 1 /\ Listed(w, i)
      /\ Responded(w) => Success(w)

\* One request lost its first file to a storage failure and stored its
\* second; the other request lost every file and still answered success.
C2_Witness ==
  \E w, v \in Workers :
    /\ w # v /\ Responded(w) /\ Responded(v) /\ Success(w) /\ Success(v)
    /\ Len(Files(w)) = 2 /\ StoreFailed(w, 1) /\ RowsOf(w, 2) # {}
    /\ Len(Files(v)) = 2 /\ processed_files[v] = <<>>
    /\ \E i \in 1..2 : <<i, "Unexpected error processing file">> \in log[v]

(***************************************************************************)
(* C3  A batch of n >= 1 files, all canonical base64 of whole int16        *)
(* samples, with a valid timestamp and no storage failure, is answered     *)
(* HTTP 200 "success" with n entries in input order, and exactly n rows    *)
(* are inserted for it, one per file, with the request's session_id,       *)
(* timestamp and file_name verbatim, whatever the table already holds.     *)
(***************************************************************************)
C3_AllValidStored ==
  \A w \in Workers :
    ( /\ Responded(w)
      /\ Len(Files(w)) >= 1
      /\ MatchesTimestampPattern(payload[w].timestamp)
      /\ \A i \in 1..Len(Files(w)) :
           Files(w)[i] \in Canonical /\ WholeSamples(Files(w)[i])
      /\ \A i \in 1..Len(Files(w)) : ~StoreFailed(w, i) )
    =>
      /\ Success(w)
      /\ Len(response[w].content.processed_files) = Len(Files(w))
      /\ \A i \in 1..Len(Files(w)) :
           response[w].content.processed_files[i].file_name
             = Files(w)[i].file_name
      /\ Cardinality(inserted[w]) = Len(Files(w))
      /\ \A i \in 1..Len(Files(w)) :
           \E k \in 1..Len(db) :
             /\ RowsOf(w, i) = {k}
             /\ db[k].id = k
             /\ db[k].session_id = payload[w].session_id
             /\ db[k].timestamp = payload[w].timestamp
             /\ db[k].file_name = Files(w)[i].file_name

\* The same batch of two valid files submitted twice: four rows.
C3_Witness ==
  /\ \A w \in Workers : Responded(w) /\ Success(w)
  /\ payload["w1"] = payload["w2"]
  /\ Len(Files("w1")) = 2
  /\ \A i \in 1..2 :
       Files("w1")[i] \in Canonical /\ WholeSamples(Files("w1")[i])
  /\ Len(db) = 4

(***************************************************************************)
(* C4  A batch with at least one file and a valid timestamp in which no    *)
(* file is canonical base64 is answered HTTP 400 "Invalid base64 encoding  *)
(* file!", and every validation failure is answered HTTP 400 with one of   *)
(* the three fixed reasons.                                                *)
(***************************************************************************)
C4_NoCanonicalFileRejected ==
  \A w \in Workers :
    /\ ( /\ Responded(w)
         /\ Len(Files(w)) >= 1
         /\ MatchesTimestampPattern(payload[w].timestamp)
         /\ \A i \in 1..Len(Files(w)) : Files(w)[i] \notin Canonical )
       => Http400(w, "Invalid base64 encoding file!")
    /\ Responded(w) /\ FailsValidation(payload[w])
       => \E msg \in {"No audio files provided!", "Invalid timestamp format!",
                      "Invalid base64 encoding file!"} : Http400(w, msg)

(***************************************************************************)
(* C5  A batch with no audio files is answered HTTP 400 "No audio files    *)
(* provided!", whatever its other fields: the presence check comes first.  *)
(***************************************************************************)
C5_EmptyRejected ==
  \A w \in Workers :
    Active(w) /\ Len(Files(w)) = 0 =>
      Responded(w) /\ Http400(w, "No audio files provided!")

\* An empty batch whose timestamp is malformed too.
C5_Witness ==
  \E w \in Workers :
    /\ Responded(w) /\ Len(Files(w)) = 0
    /\ ~MatchesTimestampPattern(payload[w].timestamp)

(***************************************************************************)
(* C6  A batch with at least one file whose timestamp does not match       *)
(* YYYY-MM-DDTHH:MM:SS[.fraction]Z is answered HTTP 400 "Invalid timestamp *)
(* format!", whether its files are valid base64 or not.                    *)
(***************************************************************************)
C6_BadTimestampRejected ==
  \A w \in Workers :
    ( /\ Active(w)
      /\ Len(Files(w)) >= 1
      /\ ~MatchesTimestampPattern(payload[w].timestamp) )
    => Responded(w) /\ Http400(w, "Invalid timestamp format!")

\* The trailing Z is missing and the first file is not base64 at all, while
\* the other request was rejected for its timestamp with a valid file.
C6_Witness ==
  \E w, v \in Workers :
    /\ w # v /\ Responded(w) /\ Responded(v)
    /\ payload[w].timestamp = TsNoZ /\ payload[v].timestamp = TsNoZ
    /\ Len(Files(w)) = 2 /\ Files(w)[1] \notin StrictDecodable
    /\ Len(Files(v)) = 1 /\ Files(v)[1] \in Canonical

(***************************************************************************)
(* C7  In a validated batch a file whose payload is N whole int16 samples, *)
(* N >= 0, is never a decode error; unless its storage fails it gets a row *)
(* with length_seconds = N / 4000 exactly and an entry whose               *)
(* length_seconds is that value rounded to 2 decimals (within half a       *)
(* hundredth of it).  N = 0 is no exception.                               *)
(***************************************************************************)
C7_Duration ==
  \A w \in Workers :
    Validated(w) =>
      \A i \in 1..Handled(w) :
        WholeSamples(Files(w)[i]) =>
          /\ <<i, "Unexpected error processing file">> \notin log[w]
          /\ ~StoreFailed(w, i) =>
               /\ \E k \in 1..Len(db) :
                    /\ RowsOf(w, i) = {k}
                    /\ db[k].length_seconds.num * 4000
                         = SampleCount(Files(w)[i]) * db[k].length_seconds.den
               /\ \E j \in 1..Len(processed_files[w]) :
                    /\ j <= Len(KeptIdx(w, Handled(w)))
                    /\ KeptIdx(w, Handled(w))[j] = i
                    /\ LET h == processed_files[w][j].length_seconds
                           d == h * 4000 - 100 * SampleCount(Files(w)[i])
                       IN d <= 2000 /\ -d <= 2000

\* A zero-length payload and a payload of 30 samples, both stored: 0.0 and
\* 0.0075 in the table, 0.0 and 0.01 in the response.
C7_Witness ==
  \E w \in Workers :
    /\ Responded(w) /\ Success(w)
    /\ Len(Files(w)) = 2
    /\ SampleCount(Files(w)[1]) = 0 /\ WholeSamples(Files(w)[1])
    /\ SampleCount(Files(w)[2]) = 30 /\ WholeSamples(Files(w)[2])
    /\ Len(processed_files[w]) = 2
    /\ processed_files[w][1].length_seconds = 0
    /\ processed_files[w][2].length_seconds = 1
    /\ \E k \in RowsOf(w, 1) : db[k].length_seconds.num = 0

(***************************************************************************)
(* C8  As claimed: in a validated batch a file whose decoded payload has   *)
(* an odd number of bytes 2N+1 is decoded as N samples: it is not skipped, *)
(* and unless its storage fails it has a row with length_seconds = N/4000  *)
(* and an entry in processed_files.                                        *)
(***************************************************************************)
C8_OddPayloadTruncated ==
  \A w \in Workers :
    Validated(w) =>
      \A i \in 1..Handled(w) :
        OddPayload(Files(w)[i]) =>
          /\ <<i, "Unexpected error processing file">> \notin log[w]
          /\ ~StoreFailed(w, i) =>
               /\ \E k \in RowsOf(w, i) :
                    db[k].length_seconds.num * 4000
                      = SampleCount(Files(w)[i]) * db[k].length_seconds.den
               /\ Listed(w, i)

(***************************************************************************)
(* C8 as amended: in a validated batch a file whose decoded payload has an *)
(* odd number of bytes fails to decode and is skipped: the error is        *)
(* logged, no row is stored for it, it is not listed, and the batch is     *)
(* still answered HTTP 200 "success".                                      *)
(***************************************************************************)
C8_OddPayloadSkipped ==
  \A w \in Workers :
    Validated(w) =>
      /\ \A i \in 1..Handled(w) :
           OddPayload(Files(w)[i]) =>
             /\ <<i, "Unexpected error processing file">> \in log[w]
             /\ RowsOf(w, i) = {}
             /\ ~Listed(w, i)
      /\ Responded(w) => Success(w)

\* An odd payload first, skipped; the second file of the batch stored.
C8_Witness ==
  \E w \in Workers :
    /\ Responded(w) /\ Success(w)
    /\ Len(Files(w)) = 2
    /\ Files(w)[1] \in Canonical /\ OddPayload(Files(w)[1])
    /\ RowsOf(w, 1) = {} /\ RowsOf(w, 2) # {}
    /\ Len(processed_files[w]) = 1

(***************************************************************************)
(* C9  A batch with a valid timestamp whose first file is canonical and    *)
(* which has a later file that is not valid base64 is not rejected; it is  *)
(* answered HTTP 200 "success", and the invalid file is dropped: no row,   *)
(* no entry.  Every row stored comes from a file that is valid base64.     *)
(***************************************************************************)
C9_InvalidBase64Dropped ==
  \A w \in Workers :
    /\ ( /\ Active(w)
         /\ MatchesTimestampPattern(payload[w].timestamp)
         /\ Len(Files(w)) >= 2
         /\ Files(w)[1] \in Canonical
         /\ \E i \in 2..Len(Files(w)) : Files(w)[i] \notin StrictDecodable )
       =>
         /\ Responded(w) => Success(w)
         /\ \A i \in 1..Handled(w) :
              Files(w)[i] \notin StrictDecodable =>
                RowsOf(w, i) = {} /\ ~Listed(w, i)
    /\ \A r \in inserted[w] : Files(w)[r[1]] \in StrictDecodable

(***************************************************************************)
(* C10  The table is append-only: every step leaves the rows already       *)
(* stored as they are, whichever request takes it and whatever fails, and  *)
(* adds exactly one row for each file it appends to a processed_files      *)
(* list (and no row otherwise).                                            *)
(***************************************************************************)
IsPrefix(a, b) == Len(a) <= Len(b) /\ SubSeq(b, 1, Len(a)) = a

RECURSIVE TotalListed(_)
TotalListed(S) ==
  IF S = {} THEN 0
  ELSE LET w == CHOOSE x \in S : TRUE
       IN Len(processed_files[w]) + TotalListed(S \ {w})

C10_AppendOnly ==
  [][ /\ IsPrefix(db, db')
      /\ Len(db') - Len(db) = TotalListed(Workers)' - TotalListed(Workers)
      /\ Len(db') <= Len(db) + 1 ]_vars

\* A batch stored its first file and then lost its second, and the other
\* request was rejected: the first row is still there.
C10_Witness ==
  \E w, v \in Workers :
    /\ w # v /\ Responded(w) /\ Responded(v)
    /\ response[v].status_code = 400
    /\ Len(Files(w)) = 2
    /\ \E k \in RowsOf(w, 1) : db[k].file_name = Files(w)[1].file_name
    /\ Skipped(w, 2)

====
